---- MODULE Spec2Model ----
(***************************************************************************)
(* Multi-Camera Testing Distance Range Calculator                          *)
(* (lens_to_chart_distance.py).                                            *)
(*                                                                         *)
(* The script is re-executed top to bottom after every widget change.     *)
(* The state is the widgets' current values together with what the last   *)
(* execution left behind: the list `cameras`, the two reduced bounds and   *)
(* the lines written to the page.                                          *)
(*                                                                         *)
(* Numbers.  The script computes in binary floating point.  Here a number  *)
(* is an exact fraction <<n, d>> in lowest terms with d > 0.  Two further  *)
(* values exist: Inf == <<1, 0>> is float("inf"), and Raised == <<0, 0>>   *)
(* stands for "this expression raised" (ZeroDivisionError, ValueError);    *)
(* every operation that receives Raised yields Raised, the way an          *)
(* exception leaves every enclosing expression.  math.hypot and math.tan   *)
(* return rounded values; Hypot rounds down to 1/100 and TanHalfDeg is a   *)
(* table of rounded tangents.                                              *)
(***************************************************************************)
EXTENDS Integers, Sequences, FiniteSets, TLC

VARIABLES
    num_cameras,         \* sidebar: "Number of cameras to test"
    chart_option,        \* sidebar: "Chart size"
    wall_width_cm,       \* sidebar: "Wall width (cm)"
    max_room_dist_cm,    \* sidebar: "Max Allowable Distance from Wall (cm)"
    min_chart_fraction,  \* sidebar: "Min chart fraction of HFOV"
    widgets,             \* per camera i: the values of the widgets keyed ..._i
    cameras,             \* the list built by the camera loop
    lower_mm,            \* max of the cameras' min_mm
    upper_mm,            \* min of the cameras' max_mm
    shown,               \* the per-camera result lines, in cm with one decimal
    banner,              \* st.success / st.error of the results section
    edits                \* number of widget changes made in this session

vars == <<num_cameras, chart_option, wall_width_cm, max_room_dist_cm,
          min_chart_fraction, widgets, cameras, lower_mm, upper_mm, shown,
          banner, edits>>

----------------------------------------------------------------------------
(* Bounds of the model *)

MaxCameras == 3
MaxEdits == 2

----------------------------------------------------------------------------
(* Fractions *)

Abs(n) == IF n < 0 THEN -n ELSE n

RECURSIVE GCD(_, _)
GCD(a, b) == IF b = 0 THEN a ELSE GCD(b, a % b)

LCM(a, b) == (a \div GCD(a, b)) * b

Raised == <<0, 0>>
Inf == <<1, 0>>
Zero == <<0, 1>>

Norm(n, d) ==
    LET s == IF d < 0 THEN -1 ELSE 1
        g == GCD(Abs(n), Abs(d))
    IN  <<(s * n) \div g, (s * d) \div g>>

F(n, d) == Norm(n, d)
Num(n) == <<n, 1>>

IsRaised(x) == x = Raised
IsInf(x) == x = Inf

\* Python truthiness of a float: false exactly for zero.
Truthy(x) == x[1] # 0

\* an/ad <= bn/bd for ad, bd > 0, by continued-fraction descent (no products).
RECURSIVE LeqFrac(_, _, _, _)
LeqFrac(an, ad, bn, bd) ==
    LET qa == an \div ad
        qb == bn \div bd
        ra == an % ad
        rb == bn % bd
    IN  IF qa # qb THEN qa < qb
        ELSE IF ra = 0 THEN TRUE
        ELSE IF rb = 0 THEN FALSE
        ELSE LeqFrac(bd, rb, ad, ra)

Leq(a, b) ==
    IF IsInf(b) THEN TRUE
    ELSE IF IsInf(a) THEN FALSE
    ELSE LeqFrac(a[1], a[2], b[1], b[2])

Lt(a, b) == Leq(a, b) /\ a # b

Mul(a, b) ==
    IF IsRaised(a) \/ IsRaised(b) THEN Raised
    ELSE IF IsInf(a) \/ IsInf(b) THEN Inf
    ELSE LET g1 == GCD(Abs(a[1]), b[2])
             g2 == GCD(Abs(b[1]), a[2])
         IN  <<(a[1] \div g1) * (b[1] \div g2), (a[2] \div g2) * (b[2] \div g1)>>

\* Python's a / b: ZeroDivisionError for a zero divisor.
Div(a, b) ==
    IF IsRaised(a) \/ IsRaised(b) THEN Raised
    ELSE IF b[1] = 0 THEN Raised
    ELSE IF IsInf(b) THEN Zero
    ELSE IF IsInf(a) THEN Inf
    ELSE Mul(a, IF b[1] < 0 THEN <<-b[2], -b[1]>> ELSE <<b[2], b[1]>>)

Add(a, b) ==
    IF IsRaised(a) \/ IsRaised(b) THEN Raised
    ELSE IF IsInf(a) \/ IsInf(b) THEN Inf
    ELSE LET m == LCM(a[2], b[2])
         IN  Norm(a[1] * (m \div a[2]) + b[1] * (m \div b[2]), m)

\* Python's min(a, b) and max(a, b) of two numbers.
Min2(a, b) ==
    IF IsRaised(a) \/ IsRaised(b) THEN Raised
    ELSE IF Lt(b, a) THEN b ELSE a

Max2(a, b) ==
    IF IsRaised(a) \/ IsRaised(b) THEN Raised
    ELSE IF Lt(a, b) THEN b ELSE a

RECURSIVE ISqrtIn(_, _, _)
ISqrtIn(n, lo, hi) ==
    IF lo >= hi THEN lo
    ELSE LET mid == (lo + hi + 1) \div 2
         IN  IF mid * mid <= n THEN ISqrtIn(n, mid, hi) ELSE ISqrtIn(n, lo, mid - 1)

ISqrt(n) == ISqrtIn(n, 0, IF n < 46340 THEN n ELSE 46340)

\* math.hypot(a, b), rounded down to 1/100.
Hypot(a, b) ==
    IF IsRaised(a) \/ IsRaised(b) THEN Raised
    ELSE LET m == LCM(a[2], b[2])
             x == a[1] * (m \div a[2])
             y == b[1] * (m \div b[2])
             r == ISqrt(x * x + y * y)
         IN  Norm((100 * r) \div m, 100)

\* f"{x/10:.1f}": a length in mm written in cm with one decimal, that is the
\* nearest whole number of mm, ties to even.
Fmt1(x) ==
    IF IsRaised(x) THEN Raised
    ELSE IF IsInf(x) THEN Inf
    ELSE LET w == x[1] \div x[2]
             r == x[1] % x[2]
         IN  IF 2 * r < x[2] THEN Num(w)
             ELSE IF 2 * r > x[2] THEN Num(w + 1)
             ELSE IF w % 2 = 0 THEN Num(w) ELSE Num(w + 1)

----------------------------------------------------------------------------
(* Widget domains: the values a user is taken to enter.  Each contains the  *)
(* widget's default and its minimum.                                        *)

ChartOptions == {"A4 (210x297 mm)", "Letter (216x279 mm)", "Legal (216x356 mm)",
                 "A3 (297x420 mm)", "Ledger (279x432 mm)"}

chart_width_mm_map ==
    [o \in ChartOptions |->
        CASE o = "A4 (210x297 mm)" -> Num(210)
          [] o = "Letter (216x279 mm)" -> Num(216)
          [] o = "Legal (216x356 mm)" -> Num(216)
          [] o = "A3 (297x420 mm)" -> Num(297)
          [] o = "Ledger (279x432 mm)" -> Num(279)]

PIXELS_PER_CM == 55

SensorModes == {"Sensor Width (mm)", "Pixel Size (um)"}
LensModes == {"Focal Length (mm)", "Diagonal FOV (deg)"}

WallWidths == {Num(1), Num(300)}
RoomDists == {Num(1), Num(50), Num(200)}
ChartFractions == {Zero, F(1, 10), Num(1)}
HPixels == {3848, 7696}
VPixels == {1080, 2160}
SensorWidths == {Zero, F(962, 125)}
PixelSizes == {Zero, Num(2)}
FocalLengths == {Zero, Num(3)}
\* A positive angle so small that math.radians(dfov / 2) underflows to 0.0
\* (any float in 5e-324 .. 2e-322); the fraction only stands for it.
DenormalDfov == <<1, 2147483647>>
Dfovs == {Zero, DenormalDfov, Num(72), Num(270)}

\* f"Camera {i+1}" for the loop index i = k - 1.
DefaultName(k) == <<"Camera", k>>
Names == {DefaultName(1), DefaultName(2)}

\* The widgets of camera k as first rendered.
DefaultWidgets(k) ==
    [name |-> DefaultName(k), hpx |-> 3848, vpx |-> 2160,
     sensor_mode |-> "Sensor Width (mm)", sw |-> F(962, 125), ps |-> Num(2),
     lens_mode |-> "Focal Length (mm)", fl |-> Num(3), dfov |-> Num(72)]

----------------------------------------------------------------------------
(* The body of the camera loop *)

\* `a if c else b`
Cond(c, a, b) == IF IsRaised(c) THEN Raised ELSE IF Truthy(c) THEN a ELSE b

chart_width_cm(option) == Div(chart_width_mm_map[option], Num(10))

pixel_size_um(w) ==
    IF w.sensor_mode = "Sensor Width (mm)"
    THEN Mul(Div(w.sw, Num(w.hpx)), Num(1000))
    ELSE w.ps

sensor_width_mm(w) ==
    IF w.sensor_mode = "Sensor Width (mm)"
    THEN w.sw
    ELSE Div(Mul(Num(w.hpx), w.ps), Num(1000))

sensor_height_mm(w) == Div(Mul(Num(w.vpx), pixel_size_um(w)), Num(1000))

sensor_diag_mm(w) == Hypot(sensor_width_mm(w), sensor_height_mm(w))

\* math.tan(math.radians(dfov_deg / 2)), rounded to 1/100.
TanHalfDeg(dfov) ==
    CASE dfov = Zero -> Zero
      [] dfov = DenormalDfov -> Zero
      [] dfov = Num(72) -> F(73, 100)
      [] dfov = Num(270) -> Num(-1)

\* The tangent of half the diagonal field of view.  With a focal length given
\* the script divides half the diagonal by it (and shows 2*atan of the
\* quotient in degrees); with an angle given it is the tangent of half of it.
dfov_tan(w) ==
    IF w.lens_mode = "Focal Length (mm)"
    THEN Cond(w.fl, Div(Div(sensor_diag_mm(w), Num(2)), w.fl), Zero)
    ELSE TanHalfDeg(w.dfov)

focal_length_mm(w) ==
    IF w.lens_mode = "Focal Length (mm)"
    THEN w.fl
    ELSE Cond(w.dfov, Div(Div(sensor_diag_mm(w), Num(2)), TanHalfDeg(w.dfov)), Zero)

hfov_min_cm(h_pixels) == Div(Num(h_pixels), Num(PIXELS_PER_CM))

hfov_min_mm(h_pixels) == Mul(hfov_min_cm(h_pixels), Num(10))

mag_min(sw_mm, h_pixels) ==
    Cond(hfov_min_mm(h_pixels), Div(sw_mm, hfov_min_mm(h_pixels)), Zero)

min_dist_mm(fl_mm, mag) == Cond(mag, Add(Div(fl_mm, mag), fl_mm), Zero)

\* hfov_max_chart_cm with the chart's own width where the fraction is 0
hfov_max_chart_cm_chart(option, fraction) ==
    Cond(fraction, Div(chart_width_cm(option), fraction), chart_width_cm(option))

hfov_max_chart_cm(option, fraction) ==
    Cond(fraction, Div(chart_width_cm(option), fraction), Inf)

hfov_max_cm(wall, option, fraction) == Min2(wall, hfov_max_chart_cm(option, fraction))

\* hfov_max_mm without the conversion from cm
hfov_max_mm_unscaled(field_cm) == field_cm

hfov_max_mm(field_cm) == Mul(field_cm, Num(10))

mag_max(sw_mm, field_mm) == Cond(field_mm, Div(sw_mm, field_mm), Zero)

\* line 103: the far distance before the room cap
max_dist_uncapped(fl_mm, mag) == Cond(mag, Add(Div(fl_mm, mag), fl_mm), Zero)

\* max_dist_mm without the room cap
max_dist_mm_nocap(dist_mm, room_cm) == dist_mm

\* line 104: the room cap
max_dist_mm(dist_mm, room_cm) == Min2(dist_mm, Mul(room_cm, Num(10)))

\* The sidebar values one execution reads.
Env(option, wall, room, fraction) ==
    [chart_option |-> option, wall_width_cm |-> wall,
     max_room_dist_cm |-> room, min_chart_fraction |-> fraction]

NearDistance(w) ==
    min_dist_mm(focal_length_mm(w), mag_min(sensor_width_mm(w), w.hpx))

FarDistance(w, env) ==
    max_dist_mm(
        max_dist_uncapped(
            focal_length_mm(w),
            mag_max(sensor_width_mm(w),
                    hfov_max_mm(hfov_max_cm(env.wall_width_cm, env.chart_option,
                                            env.min_chart_fraction)))),
        env.max_room_dist_cm)

CameraEntry(w, env) ==
    [name |-> w.name, min_mm |-> NearDistance(w), max_mm |-> FarDistance(w, env)]

\* Does one pass through the loop body raise?  `entry` is the dict the pass
\* would append.  The body assigns the sensor and lens values before it uses
\* them, so a raise there ends the pass even where a later conditional
\* expression would not have read the value.
BodyRaises(w, entry) ==
    \/ IsRaised(pixel_size_um(w))
    \/ IsRaised(sensor_width_mm(w))
    \/ IsRaised(dfov_tan(w))
    \/ IsRaised(focal_length_mm(w))
    \/ IsRaised(entry.min_mm)
    \/ IsRaised(entry.max_mm)

\* cameras.append(...)
AppendCamera(cams, entry) == Append(cams, entry)

\* `cameras = []` at the top of every execution
EmptyCameras == <<>>

\* for i in range(num_cameras): ...   (k = i + 1)
RECURSIVE CameraLoop(_, _, _, _, _)
CameraLoop(cams, k, n, ws, env) ==
    IF k > n THEN [cameras |-> cams, raised |-> FALSE]
    ELSE CHOOSE r \in
            { IF BodyRaises(ws[k], entry) THEN [cameras |-> cams, raised |-> TRUE]
              ELSE CameraLoop(AppendCamera(cams, entry), k + 1, n, ws, env) :
              entry \in {CameraEntry(ws[k], env)} } : TRUE

----------------------------------------------------------------------------
(* Intersection and results *)

\* max(...) and min(...) over a generator: ValueError when it is empty.
RECURSIVE MaxOf(_)
MaxOf(s) ==
    IF Len(s) = 0 THEN Raised
    ELSE IF Len(s) = 1 THEN s[1]
    ELSE Max2(s[1], MaxOf(Tail(s)))

RECURSIVE MinOf(_)
MinOf(s) ==
    IF Len(s) = 0 THEN Raised
    ELSE IF Len(s) = 1 THEN s[1]
    ELSE Min2(s[1], MinOf(Tail(s)))

\* Lower taking the least min_mm
LowerAsMin(cams) == MinOf([k \in 1..Len(cams) |-> cams[k].min_mm])

\* Lower reading the key max_mm
LowerOfMax(cams) == MaxOf([k \in 1..Len(cams) |-> cams[k].max_mm])

Lower(cams) == MaxOf([k \in 1..Len(cams) |-> cams[k].min_mm])

Upper(cams) == MinOf([k \in 1..Len(cams) |-> cams[k].max_mm])

\* HasCommonRange with a strict comparison
StrictCommonRange(lo, hi) == Lt(lo, hi)

\* `if lower_mm <= upper_mm`
HasCommonRange(lo, hi) == Leq(lo, hi)

NoValue == <<>>

ResultLines(cams) ==
    [k \in 1..Len(cams) |->
        [name |-> cams[k].name, min_cm |-> Fmt1(cams[k].min_mm),
         max_cm |-> Fmt1(cams[k].max_mm)]]

Banner(lo, hi) ==
    IF HasCommonRange(lo, hi)
    THEN [kind |-> "success", lo_cm |-> Fmt1(lo), hi_cm |-> Fmt1(hi)]
    ELSE [kind |-> "error", lo_cm |-> NoValue, hi_cm |-> NoValue]

Traceback == [kind |-> "exception", lo_cm |-> NoValue, hi_cm |-> NoValue]

\* One execution of the script, from `start` as the list's initial value.
Script(start, n, ws, env) ==
    LET loop == CameraLoop(start, 1, n, ws, env)
        lo == Lower(loop.cameras)
        hi == Upper(loop.cameras)
    IN  IF loop.raised \/ IsRaised(lo) \/ IsRaised(hi)
        THEN [cameras |-> loop.cameras, lower_mm |-> NoValue, upper_mm |-> NoValue,
              shown |-> <<>>, banner |-> Traceback]
        ELSE [cameras |-> loop.cameras, lower_mm |-> lo, upper_mm |-> hi,
              shown |-> ResultLines(loop.cameras), banner |-> Banner(lo, hi)]

----------------------------------------------------------------------------
(* The session: first execution, then one execution per widget change *)

Init ==
    LET ws == [k \in 1..3 |-> DefaultWidgets(k)]
        env == Env("A4 (210x297 mm)", Num(300), Num(200), F(1, 10))
        run == Script(<<>>, 3, ws, env)
    IN  /\ num_cameras = 3
        /\ chart_option = "A4 (210x297 mm)"
        /\ wall_width_cm = Num(300)
        /\ max_room_dist_cm = Num(200)
        /\ min_chart_fraction = F(1, 10)
        /\ widgets = ws
        /\ cameras = run.cameras
        /\ lower_mm = run.lower_mm
        /\ upper_mm = run.upper_mm
        /\ shown = run.shown
        /\ banner = run.banner
        /\ edits = 0

\* The script runs again with the widgets' new values.
Rerun(n, option, wall, room, fraction, ws) ==
    /\ edits < MaxEdits
    /\ \E run \in {Script(EmptyCameras, n, ws, Env(option, wall, room, fraction))} :
        /\ edits' = edits + 1
        /\ num_cameras' = n
        /\ chart_option' = option
        /\ wall_width_cm' = wall
        /\ max_room_dist_cm' = room
        /\ min_chart_fraction' = fraction
        /\ widgets' = ws
        /\ cameras' = run.cameras
        /\ lower_mm' = run.lower_mm
        /\ upper_mm' = run.upper_mm
        /\ shown' = run.shown
        /\ banner' = run.banner

RerunCamera(k, w) ==
    Rerun(num_cameras, chart_option, wall_width_cm, max_room_dist_cm,
          min_chart_fraction, [widgets EXCEPT ![k] = w])

\* Widgets of cameras no longer rendered are dropped; new cameras start from
\* the defaults.
SetNumCameras ==
    \E n \in 1..MaxCameras :
        /\ n # num_cameras
        /\ Rerun(n, chart_option, wall_width_cm, max_room_dist_cm, min_chart_fraction,
                 [k \in 1..n |-> IF k <= num_cameras THEN widgets[k]
                                 ELSE DefaultWidgets(k)])

SetChartOption ==
    \E o \in ChartOptions :
        /\ o # chart_option
        /\ Rerun(num_cameras, o, wall_width_cm, max_room_dist_cm, min_chart_fraction,
                 widgets)

SetWallWidth ==
    \E v \in WallWidths :
        /\ v # wall_width_cm
        /\ Rerun(num_cameras, chart_option, v, max_room_dist_cm, min_chart_fraction,
                 widgets)

SetMaxRoomDist ==
    \E v \in RoomDists :
        /\ v # max_room_dist_cm
        /\ Rerun(num_cameras, chart_option, wall_width_cm, v, min_chart_fraction,
                 widgets)

SetMinChartFraction ==
    \E v \in ChartFractions :
        /\ v # min_chart_fraction
        /\ Rerun(num_cameras, chart_option, wall_width_cm, max_room_dist_cm, v, widgets)

SetName ==
    \E k \in 1..num_cameras, v \in Names :
        /\ v # widgets[k].name
        /\ RerunCamera(k, [widgets[k] EXCEPT !.name = v])

SetHPixels ==
    \E k \in 1..num_cameras, v \in HPixels :
        /\ v # widgets[k].hpx
        /\ RerunCamera(k, [widgets[k] EXCEPT !.hpx = v])

SetVPixels ==
    \E k \in 1..num_cameras, v \in VPixels :
        /\ v # widgets[k].vpx
        /\ RerunCamera(k, [widgets[k] EXCEPT !.vpx = v])

\* The radio shows the other number input, at its default value.
SetSensorMode ==
    \E k \in 1..num_cameras, m \in SensorModes :
        /\ m # widgets[k].sensor_mode
        /\ RerunCamera(k, [widgets[k] EXCEPT !.sensor_mode = m,
                                             !.sw = DefaultWidgets(k).sw,
                                             !.ps = DefaultWidgets(k).ps])

SetSensorWidth ==
    \E k \in 1..num_cameras, v \in SensorWidths :
        /\ widgets[k].sensor_mode = "Sensor Width (mm)"
        /\ v # widgets[k].sw
        /\ RerunCamera(k, [widgets[k] EXCEPT !.sw = v])

SetPixelSize ==
    \E k \in 1..num_cameras, v \in PixelSizes :
        /\ widgets[k].sensor_mode = "Pixel Size (um)"
        /\ v # widgets[k].ps
        /\ RerunCamera(k, [widgets[k] EXCEPT !.ps = v])

SetLensMode ==
    \E k \in 1..num_cameras, m \in LensModes :
        /\ m # widgets[k].lens_mode
        /\ RerunCamera(k, [widgets[k] EXCEPT !.lens_mode = m,
                                             !.fl = DefaultWidgets(k).fl,
                                             !.dfov = DefaultWidgets(k).dfov])

SetFocalLength ==
    \E k \in 1..num_cameras, v \in FocalLengths :
        /\ widgets[k].lens_mode = "Focal Length (mm)"
        /\ v # widgets[k].fl
        /\ RerunCamera(k, [widgets[k] EXCEPT !.fl = v])

SetDfov ==
    \E k \in 1..num_cameras, v \in Dfovs :
        /\ widgets[k].lens_mode = "Diagonal FOV (deg)"
        /\ v # widgets[k].dfov
        /\ RerunCamera(k, [widgets[k] EXCEPT !.dfov = v])

Next ==
    \/ SetNumCameras
    \/ SetChartOption
    \/ SetWallWidth
    \/ SetMaxRoomDist
    \/ SetMinChartFraction
    \/ SetName
    \/ SetHPixels
    \/ SetVPixels
    \/ SetSensorMode
    \/ SetSensorWidth
    \/ SetPixelSize
    \/ SetLensMode
    \/ SetFocalLength
    \/ SetDfov

Spec == Init /\ [][Next]_vars

\* A session already under way with one change left: one camera, any values
\* of the sidebar's widgets and of the camera's (name and vertical resolution
\* as first rendered; the remaining change reaches the others).
CameraConfigs ==
    {w \in [name : {DefaultName(1)}, hpx : HPixels, vpx : {DefaultWidgets(1).vpx},
            sensor_mode : SensorModes, sw : SensorWidths, ps : PixelSizes,
            lens_mode : LensModes, fl : FocalLengths, dfov : Dfovs] :
        /\ w.sensor_mode = "Sensor Width (mm)" => w.ps = DefaultWidgets(1).ps
        /\ w.sensor_mode = "Pixel Size (um)" => w.sw = DefaultWidgets(1).sw
        /\ w.lens_mode = "Focal Length (mm)" => w.dfov = DefaultWidgets(1).dfov
        /\ w.lens_mode = "Diagonal FOV (deg)" => w.fl = DefaultWidgets(1).fl}

InitAny ==
    \E o \in ChartOptions, wall \in WallWidths, room \in RoomDists,
       fraction \in ChartFractions, w \in CameraConfigs :
        \E run \in {Script(<<>>, 1, <<w>>, Env(o, wall, room, fraction))} :
            /\ num_cameras = 1
            /\ chart_option = o
            /\ wall_width_cm = wall
            /\ max_room_dist_cm = room
            /\ min_chart_fraction = fraction
            /\ widgets = <<w>>
            /\ cameras = run.cameras
            /\ lower_mm = run.lower_mm
            /\ upper_mm = run.upper_mm
            /\ shown = run.shown
            /\ banner = run.banner
            /\ edits = MaxEdits - 1

SpecAny == InitAny /\ [][Next]_vars

----------------------------------------------------------------------------
(* Properties *)

CurrentEnv == Env(chart_option, wall_width_cm, max_room_dist_cm, min_chart_fraction)

RoomCapMm == Mul(max_room_dist_cm, Num(10))

\* The ranges of cameras j and k overlap.
PairOverlaps(j, k) ==
    /\ Leq(cameras[j].min_mm, cameras[k].max_mm)
    /\ Leq(cameras[k].min_mm, cameras[j].max_mm)
    /\ Leq(cameras[j].min_mm, cameras[j].max_mm)
    /\ Leq(cameras[k].min_mm, cameras[k].max_mm)

\* C1: whenever the reduction has run, lower_mm is the greatest min_mm and
\* upper_mm the least max_mm of the list; a common range is reported exactly
\* when lower_mm <= upper_mm, with these two bounds, and otherwise "no
\* overlap" with no bounds.
C1_Reduction ==
    banner.kind # "exception" =>
        /\ Len(cameras) >= 1
        /\ \E k \in 1..Len(cameras) : lower_mm = cameras[k].min_mm
        /\ \A k \in 1..Len(cameras) : Leq(cameras[k].min_mm, lower_mm)
        /\ \E k \in 1..Len(cameras) : upper_mm = cameras[k].max_mm
        /\ \A k \in 1..Len(cameras) : Leq(upper_mm, cameras[k].max_mm)
        /\ (banner.kind = "success") <=> Leq(lower_mm, upper_mm)
        /\ banner.kind = "success" =>
              banner.lo_cm = Fmt1(lower_mm) /\ banner.hi_cm = Fmt1(upper_mm)
        /\ banner.kind = "error" =>
              banner.lo_cm = NoValue /\ banner.hi_cm = NoValue

\* Scenario C: three cameras, each with a non-empty range of its own, and no
\* common range.
C1_Witness ==
    /\ num_cameras = 3
    /\ banner.kind = "error"
    /\ \A k \in 1..Len(cameras) : Leq(cameras[k].min_mm, cameras[k].max_mm)
    /\ Lt(upper_mm, lower_mm)

\* C2 as stated, for a camera whose range was computed: with one camera a
\* common range is always reported, and it is the camera's own range.
C2_Original ==
    (num_cameras = 1 /\ Len(cameras) = 1) =>
        /\ banner.kind = "success"
        /\ Len(shown) = 1
        /\ banner.lo_cm = shown[1].min_cm
        /\ banner.hi_cm = shown[1].max_cm

\* C2 amended: with one camera, a reported common range is the camera's own
\* range, and "no overlap" is reported only when the camera's min_distance
\* exceeds its max_distance.
C2_Single ==
    num_cameras = 1 =>
        /\ banner.kind = "success" =>
              /\ Len(cameras) = 1 /\ Len(shown) = 1
              /\ lower_mm = cameras[1].min_mm
              /\ upper_mm = cameras[1].max_mm
              /\ banner.lo_cm = shown[1].min_cm
              /\ banner.hi_cm = shown[1].max_cm
              /\ Leq(cameras[1].min_mm, cameras[1].max_mm)
        /\ banner.kind = "error" =>
              /\ Len(cameras) = 1
              /\ Lt(cameras[1].max_mm, cameras[1].min_mm)

C2_Witness ==
    /\ num_cameras = 1
    /\ banner.kind = "success"
    /\ Lt(Zero, cameras[1].min_mm)
    /\ Lt(cameras[1].min_mm, cameras[1].max_mm)
    /\ banner.lo_cm = shown[1].min_cm
    /\ banner.hi_cm = shown[1].max_cm

\* Sensor width > 0 and focal length > 0 (pixel counts are >= 1 throughout).
NonDegenerate(w) ==
    /\ ~IsRaised(focal_length_mm(w))
    /\ Lt(Zero, sensor_width_mm(w))
    /\ Lt(Zero, focal_length_mm(w))

\* C3 as stated: every non-degenerate camera has min_distance <= max_distance.
C3_Original ==
    \A k \in 1..Len(cameras) :
        NonDegenerate(widgets[k]) => Leq(cameras[k].min_mm, cameras[k].max_mm)

\* h_pixels / 55 cm is no wider than the wall nor than chart_width / fraction.
NearFieldFits(w) ==
    /\ Leq(F(w.hpx, PIXELS_PER_CM), wall_width_cm)
    /\ \/ min_chart_fraction = Zero
       \/ Leq(Mul(F(w.hpx, PIXELS_PER_CM), min_chart_fraction),
              Div(chart_width_mm_map[chart_option], Num(10)))

\* C3 amended: a non-degenerate camera has min_distance <= max_distance
\* whenever its near field width (h_pixels / 55 cm) does not exceed the far
\* field width (the smaller of wall width and chart width / fraction) and its
\* min_distance does not exceed the room cap.
C3_Fits ==
    \A k \in 1..Len(cameras) :
        (/\ NonDegenerate(widgets[k])
         /\ NearFieldFits(widgets[k])
         /\ Leq(cameras[k].min_mm, RoomCapMm))
        => Leq(cameras[k].min_mm, cameras[k].max_mm)

C3_Witness ==
    \E k \in 1..Len(cameras) :
        /\ NonDegenerate(widgets[k])
        /\ NearFieldFits(widgets[k])
        /\ Leq(cameras[k].min_mm, RoomCapMm)
        /\ Lt(cameras[k].min_mm, cameras[k].max_mm)
        /\ Lt(cameras[k].max_mm, RoomCapMm)

\* C4: every execution on admitted widget values ends with a result (a common
\* range or "no overlap") and one entry per camera: nothing raises.
C4_NoError ==
    /\ banner.kind \in {"success", "error"}
    /\ num_cameras >= 1
    /\ Len(cameras) = num_cameras

\* The far distance from the wall width alone: no chart enters.
FarFromWall(w) ==
    IF sensor_width_mm(w) = Zero THEN Zero
    ELSE Min2(Add(Div(focal_length_mm(w),
                      Div(sensor_width_mm(w), Mul(wall_width_cm, Num(10)))),
                  focal_length_mm(w)),
              RoomCapMm)

\* C5: with min_chart_fraction = 0 every camera's max_mm is what any of the
\* five chart presets would give, and is fixed by wall width, room distance,
\* sensor width and focal length.
C5_ChartFree ==
    min_chart_fraction = Zero =>
        \A k \in 1..Len(cameras) :
            /\ \A o \in ChartOptions :
                  cameras[k].max_mm =
                      FarDistance(widgets[k],
                                  Env(o, wall_width_cm, max_room_dist_cm, Zero))
            /\ cameras[k].max_mm = FarFromWall(widgets[k])

\* The wall is wider than every chart and the room cap does not bind, so a
\* chart-derived field would show.
C5_Witness ==
    /\ min_chart_fraction = Zero
    /\ wall_width_cm = Num(300)
    /\ \E k \in 1..Len(cameras) :
          /\ Lt(Zero, cameras[k].max_mm)
          /\ Lt(cameras[k].max_mm, RoomCapMm)

\* C6: what is displayed is what one fresh execution on the current widget
\* values gives: as many camera lines as there are cameras, each camera's own
\* entry, and the banner of the reduction over exactly these entries.
C6_FreshRun ==
    /\ Len(cameras) = num_cameras
    /\ Len(shown) = num_cameras
    /\ \A k \in 1..num_cameras :
          /\ cameras[k] = CameraEntry(widgets[k], CurrentEnv)
          /\ shown[k] = [name |-> widgets[k].name,
                         min_cm |-> Fmt1(NearDistance(widgets[k])),
                         max_cm |-> Fmt1(FarDistance(widgets[k], CurrentEnv))]
    /\ \A k \in 1..num_cameras : Leq(cameras[k].min_mm, lower_mm)
    /\ \A k \in 1..num_cameras : Leq(upper_mm, cameras[k].max_mm)
    /\ (banner.kind = "success") <=> Leq(lower_mm, upper_mm)

\* C7: one entry per camera index, in input order, also when names repeat;
\* every entry takes part in the reduction.
C7_OneEntryPerCamera ==
    /\ Len(cameras) = num_cameras
    /\ \A k \in 1..num_cameras :
          /\ cameras[k].name = widgets[k].name
          /\ cameras[k].min_mm = NearDistance(widgets[k])
          /\ cameras[k].max_mm = FarDistance(widgets[k], CurrentEnv)
          /\ Leq(cameras[k].min_mm, lower_mm)
          /\ Leq(upper_mm, cameras[k].max_mm)

\* The smaller of the wall width and chart_width / min_chart_fraction, in cm.
SmallerField ==
    IF min_chart_fraction = Zero THEN wall_width_cm
    ELSE LET chart == Div(Div(chart_width_mm_map[chart_option], Num(10)),
                          min_chart_fraction)
         IN  IF Leq(wall_width_cm, chart) THEN wall_width_cm ELSE chart

\* C8: no camera's max_mm exceeds the room cap; before the cap it comes from
\* the smaller of wall width and chart_width / min_chart_fraction; the upper
\* bound of a reported common range does not exceed the cap either.
C8_RoomCap ==
    /\ \A k \in 1..Len(cameras) :
          /\ Leq(cameras[k].max_mm, RoomCapMm)
          /\ LET far == max_dist_uncapped(
                            focal_length_mm(widgets[k]),
                            mag_max(sensor_width_mm(widgets[k]),
                                    Mul(SmallerField, Num(10))))
             IN  cameras[k].max_mm = IF Leq(far, RoomCapMm) THEN far ELSE RoomCapMm
    /\ banner.kind = "success" =>
          /\ Leq(upper_mm, RoomCapMm)
          /\ Leq(banner.hi_cm, RoomCapMm)

\* The cap binds for some camera and a common range is reported.
C8_Witness ==
    /\ banner.kind = "success"
    /\ upper_mm = RoomCapMm
    /\ \E k \in 1..Len(cameras) :
          /\ cameras[k].max_mm = RoomCapMm
          /\ Lt(Zero, cameras[k].min_mm)

\* C9: a camera whose sensor width is 0 gets min_mm = 0 and max_mm = 0.
C9_ZeroSensor ==
    \A k \in 1..num_cameras :
        sensor_width_mm(widgets[k]) = Zero =>
            /\ k <= Len(cameras)
            /\ cameras[k].min_mm = Zero
            /\ cameras[k].max_mm = Zero

\* C10: two or more cameras whose ranges overlap pairwise have a common range
\* reported.
C10_Pairwise ==
    (/\ num_cameras >= 2
     /\ Len(cameras) = num_cameras
     /\ \A j, k \in 1..num_cameras : j # k => PairOverlaps(j, k))
    => banner.kind = "success"

\* Pairwise overlapping cameras with different bounds.
C10_Witness ==
    /\ num_cameras >= 2
    /\ Len(cameras) = num_cameras
    /\ \A j, k \in 1..num_cameras : j # k => PairOverlaps(j, k)
    /\ \E j, k \in 1..num_cameras :
          /\ cameras[j].max_mm # cameras[k].max_mm
          /\ cameras[j].min_mm # cameras[k].min_mm
    /\ banner.kind = "success"

====
